---- MODULE Spec2Model ----
(***************************************************************************)
(* Attendance timing state machine of the face-recognition attendance     *)
(* system: the attendance table of database.py and the operations that    *)
(* write it (manual marking, the two automatic marking paths, the camera  *)
(* windows' check-in, end-of-day reconciliation, lecture cancellation and *)
(* early dismissal).                                                      *)
(*                                                                         *)
(* Times of day are minutes since 00:00; the code formats and parses      *)
(* "%H:%M" / "%H:%M:%S" strings and compares datetime.time objects, which *)
(* orders them exactly like the minute numbers used here.                 *)
(***************************************************************************)
EXTENDS Integers, Sequences, FiniteSets, Bags, TLC

\* ---------------------------------------------------------------- config.py
STATUS_PRESENT == "Present"
STATUS_ABSENT == "Absent"
STATUS_LATE == "Late"
STATUS_NA == "N/A"
STATUS_UNAUTHORIZED_DEPARTURE == "Unauthorized Departure"

EARLY_ARRIVAL_MARGIN == 5
LATE_THRESHOLD == 15
EARLY_DEPARTURE_THRESHOLD == 15
SECOND_CHECKIN_WINDOW == 5

\* the literal of database.py:858 (auto_mark_attendance)
AUTO_EARLY_DEPARTURE_MINUTES == 10
\* the literal of attendance_window.py:227 and teacher_window.py:894
WINDOW_LATE_MINUTES == 15

\* ---------------------------------------------------------------- universe
\* datetime.time arithmetic is modulo one day
DayMinutes == 24 * 60
\* SQL NULL in the time and second_time columns
NULL == -1

\* number of dates the date selector of the manual widgets can reach
MaxDay == 2
\* largest number of faces in one recognition result
MaxFaces == 2

Students == {"S1", "S2"}
CourseIds == {101, 102}
Dates == 1..MaxDay

\* the row of the courses table used throughout: 08:00 - 09:00, two seats
Course101 ==
    [code |-> "CS101", start_time |-> 480, end_time |-> 540, capacity |-> 2]

\* clock readings at which an operation may run (07:54 ... 09:06): the
\* boundaries of every window on either side, and 07:56, 08:40, 08:58
Times == {474, 475, 476, 495, 496, 520, 525, 526, 534, 535, 538, 545, 546}
\* a coarse clock: it starts after the late threshold (08:16) and may move
\* to 08:58, inside the second check-in window
CoarseTimes == {538}
\* the statuses the manual widget writes in the coarse-clock specification
CoarseStatuses == {STATUS_PRESENT, STATUS_ABSENT}
\* the student the fine-clock specification follows
TimingStudents == {"S1"}
\* end times the early-dismissal dialog may store
CustomEnds == {530}
\* a second end time for the lecture of the camera session, stored after or
\* before the first one
LaterCustomEnds == {536}
\* a second course of the same teacher
Course102 ==
    [code |-> "CS102", start_time |-> 480, end_time |-> 540, capacity |-> 2]
\* a second section of the course CS101, with one seat
Course101Section2 ==
    [code |-> "CS101", start_time |-> 600, end_time |-> 660, capacity |-> 1]
\* the sections of the enrollment dialog: 101 and 102 are sections of CS101,
\* 103 is CS102, 104 is not in the courses table
SectionIds == {101, 102, 103, 104}
\* the course the camera session is opened on
SessionCourses == {101}
\* clock readings between the windows of the end times 08:50, 08:56 and 09:00
EndClock == {526, 534, 538}

\* statuses offered by the combo box of the manual attendance widget
ManualStatuses ==
    {STATUS_PRESENT, STATUS_ABSENT, STATUS_LATE, STATUS_UNAUTHORIZED_DEPARTURE}

Statuses == ManualStatuses \cup {STATUS_NA}

\* ------------------------------------------------- recognition universe
\* config.py: FACE_RECOGNITION_TOLERANCE = 0.98; distances are in hundredths
FACE_RECOGNITION_TOLERANCE == 98
\* LivenessDetector.__init__
history_size == 5
required_blinks == 1
required_movements == 1
\* the counters are followed up to this value
MaxEvidence == 2

\* horizontal positions of a face rectangle in the frame (pixels)
Positions == {0, 30}
\* eye aspect ratios (hundredths) computed from face-mesh landmarks
Ears == {30, 10}
\* face encodings as encode_face pickles them: one signed number stands for the
\* vector, its absolute value for the norm
Encodings == {2, 3, -2}
\* a row of the users table
UserRow(id, face_encoding) == [id |-> id, face_encoding |-> face_encoding]
\* the users table with the faces of both students registered
RegisteredUsers == <<UserRow("S1", 2), UserRow("S2", 2)>>
\* users tables a camera session may start from
UserTables == {<< >>, RegisteredUsers}
\* cosine distances (hundredths) of a face to the entries of a gallery of two
\* students: a tie at the tolerance, the least distance at the second
\* entry, and no entry within the tolerance
DistanceVectors(gallery) ==
    IF gallery = << >> THEN {<< >>}
    ELSE {<<98, 98>>, <<99, 50>>, <<99, 99>>}

VARIABLES
    now,                  \* wall clock, minute of the day
    today,                \* wall clock, date
    courses,              \* courses table: reference_number -> schedule
    enrollments,          \* enrollments table: set of <<course_id, student_id>>
    attendance,           \* attendance table: bag of rows (the id column left out)
    lecture_custom_times, \* lecture_custom_times table: <<course_id, date>> -> end time
    last,                 \* the last call and what it returned
    known_face_ids,       \* ViTFaceRecognitionSystem: student ids of the gallery, in order
    liveness_detector,    \* the LivenessDetector of the recognition system
    camera,               \* AttendanceWindow.camera: NULL, or the course of the session
    recognition_results,  \* what the last recognize_faces call returned
    users,                \* users table, students only: rows [id, face_encoding] in rowid order
    known_face_encodings, \* ViTFaceRecognitionSystem: the encodings of the gallery, in order
    widget_course_id,     \* ManualAttendanceWidget.course_id
    date_edit,            \* ManualAttendanceWidget: the date selected in the date selector
    status_combo,         \* ManualAttendanceWidget: student -> status shown in the combo box
    pending_saves,        \* ManualAttendanceWidget: students with a queued status change
    last_saved_statuses,  \* ManualAttendanceWidget: student -> status last committed or loaded
    lecture_cancelled,    \* ManualAttendanceWidget: the flag of the selected date
    edit_log              \* history: student -> the date and status of the last selection

\* the state of the recognition system and of the camera window
recognition == <<known_face_ids, liveness_detector, camera, recognition_results>>

\* the users table and the encodings cached from it
registry == <<users, known_face_encodings>>
\* the state of the manual attendance widget
manual == <<widget_course_id, date_edit, status_combo, pending_saves,
            last_saved_statuses, lecture_cancelled, edit_log>>

vars == <<now, today, courses, enrollments, attendance, lecture_custom_times, last,
          recognition, registry, manual>>

\* ------------------------------------------------------------ time arithmetic
\* (datetime.combine(date.today(), t) + timedelta(minutes=m)).time()
TimePlus(t, m) == (t + m) % DayMinutes
\* (datetime.combine(date.today(), t) - timedelta(minutes=m)).time()
TimeMinus(t, m) == (t + DayMinutes - m) % DayMinutes

\* ------------------------------------------------------------ SQL helpers
RECURSIVE SumCounts(_, _)
SumCounts(B, S) ==
    IF S = {} THEN 0
    ELSE LET r == CHOOSE x \in S : TRUE
         IN  B[r] + SumCounts(B, S \ {r})

\* rows matching WHERE student_id = ? AND course_id = ? AND date = ?; also the
\* rows the UNIQUE(student_id, course_id, date) index holds for the key
KeyRowsIgnoringCancelled(att, s, c, d) ==
    {r \in DOMAIN att : r.student_id = s /\ r.course_id = c /\ r.date = d
                        /\ r.is_cancelled = 0}

KeyRows(att, s, c, d) ==
    {r \in DOMAIN att : r.student_id = s /\ r.course_id = c /\ r.date = d}

\* rows matching WHERE course_id = ? AND date = ?
LectureRows(att, c, d) ==
    {r \in DOMAIN att : r.course_id = c /\ r.date = d}

\* SELECT COUNT(*) over a set of distinct rows of the bag
CountRows(att, S) == SumCounts(att, S)

\* cursor.fetchone() of the key query: a row, or nothing
HasRow(att, s, c, d) == KeyRows(att, s, c, d) # {}
FetchOne(att, s, c, d) == CHOOSE r \in KeyRows(att, s, c, d) : TRUE

NewRow(s, c, d, t, st, canc) ==
    [student_id |-> s, course_id |-> c, date |-> d, time |-> t,
     second_time |-> NULL, status |-> st, is_cancelled |-> canc]

\* INSERT INTO attendance: the UNIQUE constraint raises IntegrityError
SqlInsertFailingAfterWrite(att, row) ==
    [ok |-> FALSE, att |-> att (+) SetToBag({row})]

SqlInsert(att, row) ==
    IF KeyRows(att, row.student_id, row.course_id, row.date) # {}
    THEN [ok |-> FALSE, att |-> att]
    ELSE [ok |-> TRUE, att |-> att (+) SetToBag({row})]

\* UPDATE attendance SET ... WHERE ...: Set(r) is the rewritten row
SqlUpdate(att, Where(_), Set(_)) ==
    LET F(r) == IF Where(r) THEN Set(r) ELSE r
        img == {F(r) : r \in DOMAIN att}
    IN  [x \in img |-> SumCounts(att, {r \in DOMAIN att : F(r) = x})]

\* get_custom_end_time / the effective end time of a lecture
HasCustomEnd(c, d) == <<c, d>> \in DOMAIN lecture_custom_times
EffectiveEndScheduled(c, d) == courses[c].end_time

EffectiveEnd(c, d) ==
    IF HasCustomEnd(c, d) THEN lecture_custom_times[<<c, d>>]
    ELSE courses[c].end_time

IsEnrolled(s, c) == <<c, s>> \in enrollments
EnrolledStudents(c) == {s \in Students : <<c, s>> \in enrollments}

\* if result[2] == 1: the class is cancelled, the row is not written
ClassCancelledNever(result) == FALSE

ClassCancelled(result) == result.is_cancelled = 1

\* UPDATE attendance SET second_time = ? of the automatic paths
SecondCheckInTouchingStatus(r, t) ==
    [r EXCEPT !.second_time = t, !.status = STATUS_PRESENT]

SecondCheckIn(r, t) == [r EXCEPT !.second_time = t]

Call(op, s, c, d, ret, msgs) ==
    [op |-> op, student_id |-> s, course_id |-> c, date |-> d,
     ret |-> ret, results |-> msgs]

\* ------------------------------------------------------- LivenessDetector
\* LivenessDetector.__init__ and reset(): the fields the liveness decision reads
FreshDetector ==
    [blink_count |-> 0, head_movement_count |-> 0, last_face_position |-> NULL,
     blink_history |-> << >>, movement_history |-> << >>]

RECURSIVE SumSeq(_)
SumSeq(h) == IF h = << >> THEN 0 ELSE Head(h) + SumSeq(Tail(h))

\* history.append(x); if len(history) > history_size: history.pop(0)
Push(h, x) ==
    LET a == Append(h, x) IN IF Len(a) > history_size THEN Tail(a) ELSE a

Abs(x) == IF x < 0 THEN -x ELSE x

\* detect_blink: ear < avg_ear * 0.7 once the history is full
DetectBlinkPerCall(ld, ear) ==
    LET h == Push(ld.blink_history, ear)
        blink == /\ Len(h) >= history_size
                 /\ ear * Len(h) * 10 < SumSeq(h) * 7
    IN  [ld EXCEPT !.blink_history = h,
                   !.blink_count = IF blink THEN 1 ELSE 0]

DetectBlink(ld, ear) ==
    LET h == Push(ld.blink_history, ear)
        blink == /\ Len(h) >= history_size
                 /\ ear * Len(h) * 10 < SumSeq(h) * 7
    IN  [ld EXCEPT !.blink_history = h,
                   !.blink_count = IF blink THEN @ + 1 ELSE @]

\* detect_head_movement: movement > avg_movement * 1.2 once the history is full
DetectHeadMovement(ld, face_position) ==
    IF ld.last_face_position = NULL
    THEN [ld EXCEPT !.last_face_position = face_position]
    ELSE LET movement == Abs(face_position - ld.last_face_position)
             h == Push(ld.movement_history, movement)
             moved == /\ Len(h) >= history_size
                      /\ movement * Len(h) * 10 > SumSeq(h) * 12
         IN  [ld EXCEPT !.movement_history = h,
                        !.last_face_position = face_position,
                        !.head_movement_count = IF moved THEN @ + 1 ELSE @]

\* the return expression of check_liveness
LivenessDecisionBoth(ld, texture_check) ==
    /\ ld.blink_count >= required_blinks
    /\ ld.head_movement_count >= required_movements
    /\ texture_check

LivenessDecision(ld, texture_check) ==
    /\ \/ ld.blink_count >= required_blinks
       \/ ld.head_movement_count >= required_movements
    /\ texture_check

\* check_liveness(face_image, landmarks, face_position): the detector after the
\* call and the value returned; texture_check is analyze_texture(face_image)
CheckLiveness(ld, texture_check, landmarks, face_position) ==
    LET ld1 == IF landmarks # NULL THEN DetectBlink(ld, landmarks) ELSE ld
        ld2 == IF face_position # NULL THEN DetectHeadMovement(ld1, face_position)
               ELSE ld1
    IN  [ld |-> ld2, live |-> LivenessDecision(ld2, texture_check)]

\* ------------------------------------- ViTFaceRecognitionSystem.recognize_faces
\* np.argmin(distances): a scan that keeps the first index of the least value
RECURSIVE ArgMinFrom(_, _, _)
ArgMinFrom(distances, i, best) ==
    IF i > Len(distances) THEN best
    ELSE ArgMinFrom(distances, i + 1,
                    IF distances[i] < distances[best] THEN i ELSE best)

ArgMinLast(distances) ==
    CHOOSE i \in DOMAIN distances :
        /\ \A j \in DOMAIN distances : distances[i] <= distances[j]
        /\ \A j \in DOMAIN distances : j > i => distances[j] > distances[i]

ArgMin(distances) == ArgMinFrom(distances, 2, 1)

\* if min_distance <= FACE_RECOGNITION_TOLERANCE
WithinTolerance(min_distance) == min_distance <= FACE_RECOGNITION_TOLERANCE

\* if reference_number is not None: is_student_enrolled_in_course
EnrollmentFilterOff(student_id, reference_number) == TRUE

EnrollmentFilter(student_id, reference_number) ==
    reference_number = NULL \/ IsEnrolled(student_id, reference_number)

Unrecognized(i, msg) == [location |-> i, message |-> msg]

\* the body of the loop over the detected faces, for face number i of the
\* frame; out holds the detector and the two result lists so far
RecognizeFace(out, frame, i, reference_number) ==
    LET face == frame.faces[i]
        chk == CheckLiveness(out.ld, frame.texture, NULL, face.position)
    IN  IF ~chk.live
        THEN [out EXCEPT !.ld = chk.ld,
                         !.unrecognized =
                              Append(@, Unrecognized(i, "Liveness check failed"))]
        ELSE LET best_match_index == ArgMin(face.distances)
                 min_distance == face.distances[best_match_index]
                 student_id == known_face_ids[best_match_index]
             IN  IF WithinTolerance(min_distance)
                 THEN IF EnrollmentFilter(student_id, reference_number)
                      THEN [out EXCEPT !.ld = chk.ld,
                               !.recognized =
                                  Append(@, [student_id |-> student_id,
                                             location |-> i])]
                      ELSE [out EXCEPT !.ld = chk.ld,
                               !.unrecognized =
                                  Append(@, Unrecognized(i, "Not enrolled"))]
                 ELSE [out EXCEPT !.ld = chk.ld,
                          !.unrecognized = Append(@, Unrecognized(i, "Unknown"))]

RECURSIVE RecognizeLoop(_, _, _, _)
RecognizeLoop(out, frame, i, reference_number) ==
    IF i > Len(frame.faces) THEN out
    ELSE RecognizeLoop(RecognizeFace(out, frame, i, reference_number),
                       frame, i + 1, reference_number)

NoResults == [recognized |-> << >>, unrecognized |-> << >>]

\* recognize_faces(frame, reference_number): the detector after the call and
\* the dictionary returned
RecognizeFaces(ld, frame, reference_number) ==
    IF known_face_ids = << >> \/ frame.faces = << >>
    THEN [ld |-> ld, recognized |-> << >>, unrecognized |-> << >>]
    ELSE RecognizeLoop([ld |-> ld, recognized |-> << >>, unrecognized |-> << >>],
                       frame, 1, reference_number)

\* Database.get_student_face_encodings: SELECT id, face_encoding FROM users
\* WHERE role = 'student' AND face_encoding IS NOT NULL
GetStudentFaceEncodings(u) == SelectSeq(u, LAMBDA row : row.face_encoding # NULL)
\* encoding / np.linalg.norm(encoding)
Normalize(encoding) == IF encoding > 0 THEN 1 ELSE -1
\* the two lists load_face_encodings builds from the rows
LoadedIds(u) ==
    LET student_encodings == GetStudentFaceEncodings(u)
    IN  [i \in DOMAIN student_encodings |-> student_encodings[i].id]
LoadedEncodings(u) ==
    LET student_encodings == GetStudentFaceEncodings(u)
    IN  [i \in DOMAIN student_encodings |-> Normalize(student_encodings[i].face_encoding)]
\* ViTFaceRecognitionSystem.__init__ ends with load_face_encodings()
GalleryLoaded ==
    /\ known_face_ids = LoadedIds(users)
    /\ known_face_encodings = LoadedEncodings(users)

\* the state before any camera session: no registered face, a new detector
RecognitionIdle ==
    /\ users = << >>
    /\ known_face_ids = << >>
    /\ known_face_encodings = << >>
    /\ liveness_detector = FreshDetector
    /\ camera = NULL
    /\ recognition_results = NoResults

\* no manual attendance widget is open
WidgetClosed ==
    /\ widget_course_id = NULL
    /\ date_edit = NULL
    /\ status_combo = << >>
    /\ pending_saves = {}
    /\ last_saved_statuses = << >>
    /\ lecture_cancelled = FALSE
    /\ edit_log = << >>

\* ------------------------------------------------------------------- Init
Init ==
    /\ now = 496
    /\ today = 1
    /\ courses = [c \in {101} |-> Course101]
    /\ enrollments = {}
    /\ attendance = EmptyBag
    /\ lecture_custom_times = << >>
    /\ last = Call("init", "", 0, 0, "None", << >>)
    /\ WidgetClosed
    /\ RecognitionIdle

\* ------------------------------------------------------------------ clock
Tick(T) ==
    /\ \E t \in T : t > now /\ now' = t
    /\ last' = Call("tick", "", 0, 0, "None", << >>)
    /\ UNCHANGED <<today, courses, enrollments, attendance, lecture_custom_times,
                   recognition,
                   registry, manual>>

\* ------------------------------------------------- Database.mark_attendance
\* the table after the call and the value returned
MarkAttendanceOn(att, s, c, d, t, st) ==
    IF HasRow(att, s, c, d)
    THEN LET result == FetchOne(att, s, c, d) IN
         IF ClassCancelled(result)
         THEN [ok |-> FALSE, att |-> att]
         ELSE IF result.second_time = NULL
         THEN [ok |-> TRUE,
               att |-> SqlUpdate(att,
                        LAMBDA r : r.student_id = s /\ r.course_id = c /\ r.date = d,
                        LAMBDA r : [r EXCEPT !.second_time = t, !.status = st])]
         ELSE [ok |-> FALSE, att |-> att]
    ELSE SqlInsert(att, NewRow(s, c, d, t, st, 0))

MarkAttendance(s, c, d, t, st) ==
    LET run == MarkAttendanceOn(attendance, s, c, d, t, st) IN
    /\ attendance' = run.att
    /\ last' = Call("mark_attendance", s, c, d,
                    IF run.ok THEN "True" ELSE "False", << >>)
    /\ UNCHANGED <<now, today, courses, enrollments, lecture_custom_times,
                   recognition,
                   registry, manual>>

\* ---------------------------------------------- Database.auto_mark_attendance
\* the first-check-in branch: window test, status, INSERT
AutoFirstWindowOpenStrict(t, start, end) ==
    /\ TimeMinus(start, EARLY_ARRIVAL_MARGIN) < t
    /\ t <= TimeMinus(end, AUTO_EARLY_DEPARTURE_MINUTES)

AutoFirstWindowOpen(t, start, end) ==
    /\ TimeMinus(start, EARLY_ARRIVAL_MARGIN) <= t
    /\ t <= TimeMinus(end, AUTO_EARLY_DEPARTURE_MINUTES)

AutoFirstStatusStrict(t, start) ==
    IF t >= TimePlus(start, LATE_THRESHOLD) THEN STATUS_LATE ELSE STATUS_PRESENT

AutoFirstStatus(t, start) ==
    IF t > TimePlus(start, LATE_THRESHOLD) THEN STATUS_LATE ELSE STATUS_PRESENT

\* the second-check-in window around the effective end time
SecondWindowOpenStrict(t, end) ==
    /\ TimeMinus(end, SECOND_CHECKIN_WINDOW) <= t
    /\ t < TimePlus(end, SECOND_CHECKIN_WINDOW)

SecondWindowOpen(t, end) ==
    /\ TimeMinus(end, SECOND_CHECKIN_WINDOW) <= t
    /\ t <= TimePlus(end, SECOND_CHECKIN_WINDOW)

AutoMark(s, c) ==
    /\ IF c \notin DOMAIN courses
       THEN /\ attendance' = attendance
            /\ last' = Call("auto_mark_attendance", s, c, today, "False", << >>)
       ELSE LET course_start == courses[c].start_time
                course_end == EffectiveEnd(c, today)
            IN
            IF HasRow(attendance, s, c, today)
            THEN LET result == FetchOne(attendance, s, c, today) IN
                 IF ClassCancelled(result)
                 THEN /\ attendance' = attendance
                      /\ last' = Call("auto_mark_attendance", s, c, today, "False", << >>)
                 ELSE IF result.second_time = NULL /\ SecondWindowOpen(now, course_end)
                 THEN /\ attendance' = SqlUpdate(attendance,
                            LAMBDA r : r.student_id = s /\ r.course_id = c /\ r.date = today,
                            LAMBDA r : SecondCheckIn(r, now))
                      /\ last' = Call("auto_mark_attendance", s, c, today, "True", << >>)
                 ELSE /\ attendance' = attendance
                      /\ last' = Call("auto_mark_attendance", s, c, today, "False", << >>)
            ELSE IF AutoFirstWindowOpen(now, course_start, course_end)
                 THEN LET ins == SqlInsert(attendance,
                                   NewRow(s, c, today, now,
                                          AutoFirstStatus(now, course_start), 0))
                      IN  /\ attendance' = ins.att
                          /\ last' = Call("auto_mark_attendance", s, c, today,
                                          IF ins.ok THEN "True" ELSE "False", << >>)
                 ELSE /\ attendance' = attendance
                      /\ last' = Call("auto_mark_attendance", s, c, today, "False", << >>)
    /\ UNCHANGED <<now, today, courses, enrollments, lecture_custom_times,
                   recognition,
                   registry, manual>>

\* ------------- ViTFaceRecognitionSystem.mark_attendance_for_recognized_students
Result(s, ok, msg) == [student_id |-> s, success |-> ok, message |-> msg]

\* one iteration of the loop over recognition_results['recognized']
RecognizedStudentStep(att, s, c) ==
    LET course_start == courses[c].start_time
        course_end == EffectiveEnd(c, today)
        early_arrival == TimeMinus(course_start, EARLY_ARRIVAL_MARGIN)
        late_threshold == TimePlus(course_start, LATE_THRESHOLD)
    IN
    IF ~IsEnrolled(s, c)
    THEN [att |-> att, res |-> Result(s, FALSE, "Not enrolled in this course")]
    ELSE IF HasRow(att, s, c, today)
    THEN LET result == FetchOne(att, s, c, today) IN
         IF ClassCancelled(result)
         THEN [att |-> att, res |-> Result(s, FALSE, "Class cancelled")]
         ELSE IF result.second_time = NULL /\ SecondWindowOpen(now, course_end)
         THEN [att |-> SqlUpdate(att,
                    LAMBDA r : r.student_id = s /\ r.course_id = c /\ r.date = today,
                    LAMBDA r : SecondCheckIn(r, now)),
               res |-> Result(s, TRUE, "Second check-in recorded")]
         ELSE [att |-> att, res |-> Result(s, FALSE, "Already checked in")]
    ELSE IF now < early_arrival
    THEN [att |-> att, res |-> Result(s, FALSE, "Too early")]
    ELSE IF now > course_end
    THEN [att |-> att, res |-> Result(s, FALSE, "Class ended")]
    ELSE LET status == IF now <= late_threshold THEN STATUS_PRESENT ELSE STATUS_LATE
             ins == SqlInsert(att, NewRow(s, c, today, now, status, 0))
         IN  [att |-> ins.att, res |-> Result(s, TRUE, "Marked as " \o status)]

\* the loop: att is the table so far, out the attendance_results so far
RECURSIVE RecognizedLoop(_, _, _, _)
RecognizedLoop(att, recognized, c, out) ==
    IF recognized = << >> THEN [att |-> att, results |-> out]
    ELSE LET step == RecognizedStudentStep(att, Head(recognized), c)
         IN  RecognizedLoop(step.att, Tail(recognized), c, Append(out, step.res))

MarkRecognized(recognized, c) ==
    /\ IF c \notin DOMAIN courses
       THEN /\ attendance' = attendance
            /\ last' = Call("mark_recognized", "", c, today, "None", << >>)
       ELSE LET run == RecognizedLoop(attendance, recognized, c, << >>) IN
            /\ attendance' = run.att
            /\ last' = Call("mark_recognized", "", c, today, "None", run.results)
    /\ UNCHANGED <<now, today, courses, enrollments, lecture_custom_times,
                   recognition,
                   registry, manual>>

\* ------------------------------- camera windows' mark_attendance (button)
\* status of the row the camera windows insert
WindowStatus(t, start) ==
    IF t > TimePlus(start, WINDOW_LATE_MINUTES) THEN STATUS_LATE ELSE STATUS_PRESENT

\* SELECT, early return when a row exists, otherwise INSERT
WindowCheckIn(op, s, c) ==
    /\ IF HasRow(attendance, s, c, today)
       THEN attendance' = attendance
       ELSE attendance' =
              SqlInsert(attendance,
                        NewRow(s, c, today, now,
                               WindowStatus(now, courses[c].start_time), 0)).att
    /\ last' = Call(op, s, c, today, "None", << >>)

\* AttendanceWindow: a frame recognises the enrolled student s, then the click
AttendanceWindowMark(s, c) ==
    /\ c \in DOMAIN courses
    /\ IsEnrolled(s, c)
    /\ WindowCheckIn("window_mark_attendance", s, c)
    /\ UNCHANGED <<now, today, courses, enrollments, lecture_custom_times,
                   recognition,
                   registry, manual>>

\* CameraWidget: early_dismissal_time is read but never assigned by any code of
\* the class; dismissed ranges over what the read can give (TRUE: the handler
\* stops at the guard, by the warning or by the AttributeError)
CameraWidgetMark(s, c, dismissed) ==
    /\ c \in DOMAIN courses
    /\ IsEnrolled(s, c)
    /\ IF dismissed
       THEN /\ attendance' = attendance
            /\ last' = Call("camera_mark_attendance", s, c, today, "None", << >>)
       ELSE WindowCheckIn("camera_mark_attendance", s, c)
    /\ UNCHANGED <<now, today, courses, enrollments, lecture_custom_times,
                   recognition,
                   registry, manual>>

\* ------------------------------------- Database.update_partial_attendance
UpdatePartialAttendanceLateToo ==
    /\ attendance' = SqlUpdate(attendance,
            LAMBDA r : /\ r.date = today /\ r.time # NULL /\ r.second_time = NULL
                       /\ r.status \in {STATUS_PRESENT, STATUS_LATE}
                       /\ r.is_cancelled = 0,
            LAMBDA r : [r EXCEPT !.status = STATUS_UNAUTHORIZED_DEPARTURE])
    /\ last' = Call("update_partial_attendance", "", 0, today, "True", << >>)
    /\ UNCHANGED <<now, today, courses, enrollments, lecture_custom_times,
                   recognition,
                   registry, manual>>

UpdatePartialAttendance ==
    /\ attendance' = SqlUpdate(attendance,
            LAMBDA r : /\ r.date = today /\ r.time # NULL /\ r.second_time = NULL
                       /\ r.status = STATUS_PRESENT /\ r.is_cancelled = 0,
            LAMBDA r : [r EXCEPT !.status = STATUS_UNAUTHORIZED_DEPARTURE])
    /\ last' = Call("update_partial_attendance", "", 0, today, "True", << >>)
    /\ UNCHANGED <<now, today, courses, enrollments, lecture_custom_times,
                   recognition,
                   registry, manual>>

\* --------------------------------------------- Database.end_lecture_early
\* INSERT OR REPLACE under UNIQUE(course_id, date); the call is recorded with
\* the time it was given
EndLectureEarly(c, d, t) ==
    /\ lecture_custom_times' =
          [k \in DOMAIN lecture_custom_times \cup {<<c, d>>} |->
              IF k = <<c, d>> THEN t ELSE lecture_custom_times[k]]
    /\ last' = Call("end_lecture_early", "", c, d, "True", <<t>>)
    /\ UNCHANGED <<now, today, courses, enrollments, attendance,
                   recognition,
                   registry, manual>>

\* ------------------------------------------------ Database.cancel_lecture
\* for student in students: INSERT ... (status N/A, is_cancelled 1)
RECURSIVE InsertCancelled(_, _, _, _)
InsertCancelled(att, students, c, d) ==
    IF students = {} THEN [ok |-> TRUE, att |-> att]
    ELSE LET s == CHOOSE x \in students : TRUE
             ins == SqlInsert(att, NewRow(s, c, d, NULL, STATUS_NA, 1))
         IN  IF ins.ok THEN InsertCancelled(ins.att, students \ {s}, c, d)
             ELSE [ok |-> FALSE, att |-> att]

\* SELECT COUNT(*) ... AND is_cancelled = 1; already_cancelled = count > 0
AlreadyCancelledNever(att, c, d) == FALSE

AlreadyCancelled(att, c, d) ==
    CountRows(att, {r \in LectureRows(att, c, d) : r.is_cancelled = 1}) > 0

CancelLectureOnKeepingStatus(att, c, d) ==
    LET already_cancelled == AlreadyCancelled(att, c, d)
        count == CountRows(att, LectureRows(att, c, d))
    IN
    IF already_cancelled
    THEN [ok |-> TRUE, att |-> att]
    ELSE IF count > 0
    THEN [ok |-> TRUE,
          att |-> SqlUpdate(att,
                    LAMBDA r : r.course_id = c /\ r.date = d,
                    LAMBDA r : [r EXCEPT !.is_cancelled = 1])]
    ELSE InsertCancelled(att, EnrolledStudents(c), c, d)

\* the table after the call and the value returned
CancelLectureOn(att, c, d) ==
    LET already_cancelled == AlreadyCancelled(att, c, d)
        count == CountRows(att, LectureRows(att, c, d))
    IN
    IF already_cancelled
    THEN [ok |-> TRUE, att |-> att]
    ELSE IF count > 0
    THEN [ok |-> TRUE,
          att |-> SqlUpdate(att,
                    LAMBDA r : r.course_id = c /\ r.date = d,
                    LAMBDA r : [r EXCEPT !.status = STATUS_NA, !.is_cancelled = 1])]
    ELSE InsertCancelled(att, EnrolledStudents(c), c, d)

CancelLecture(c, d) ==
    LET run == CancelLectureOn(attendance, c, d) IN
    /\ attendance' = run.att
    /\ last' = Call("cancel_lecture", "", c, d,
                    IF run.ok THEN "True" ELSE "False", << >>)
    /\ UNCHANGED <<now, today, courses, enrollments, lecture_custom_times,
                   recognition,
                   registry, manual>>

\* ------------------------------- Database.enroll_student / unenroll_student
EnrollStudentAnySection(c, s) ==
    LET refused ==
          \/ <<c, s>> \in enrollments
          \/ c \notin DOMAIN courses
          \/ Cardinality({e \in enrollments : e[1] = c}) >= courses[c].capacity
    IN
    /\ enrollments' = IF refused THEN enrollments ELSE enrollments \cup {<<c, s>>}
    /\ last' = Call("enroll_student", s, c, 0, IF refused THEN "False" ELSE "True", << >>)
    /\ UNCHANGED <<now, today, courses, attendance, lecture_custom_times,
                   recognition, registry, manual>>

EnrollStudent(c, s) ==
    LET refused ==
          \/ <<c, s>> \in enrollments
          \/ c \notin DOMAIN courses
          \/ \E e \in enrollments :
                /\ e[2] = s /\ e[1] # c /\ e[1] \in DOMAIN courses
                /\ courses[e[1]].code = courses[c].code
          \/ Cardinality({e \in enrollments : e[1] = c}) >= courses[c].capacity
    IN
    /\ enrollments' = IF refused THEN enrollments ELSE enrollments \cup {<<c, s>>}
    /\ last' = Call("enroll_student", s, c, 0, IF refused THEN "False" ELSE "True", << >>)
    /\ UNCHANGED <<now, today, courses, attendance, lecture_custom_times,
                   recognition,
                   registry, manual>>

UnenrollStudent(c, s) ==
    /\ enrollments' = enrollments \ {<<c, s>>}
    /\ last' = Call("unenroll_student", s, c, 0, "None", << >>)
    /\ UNCHANGED <<now, today, courses, attendance, lecture_custom_times,
                   recognition,
                   registry, manual>>

\* recognition results: sequences of at most MaxFaces recognised students
RecognizedLists(S) == UNION {[1..n -> S] : n \in 1..MaxFaces}

Next ==
    \/ Tick(CoarseTimes)
    \/ \E s \in Students, c \in DOMAIN courses, st \in CoarseStatuses :
          MarkAttendance(s, c, today, now, st)
    \/ \E s \in Students, c \in CourseIds : AutoMark(s, c)
    \/ \E rec \in RecognizedLists(Students), c \in CourseIds : MarkRecognized(rec, c)
    \/ \E s \in Students, c \in CourseIds : AttendanceWindowMark(s, c)
    \/ \E s \in Students, c \in CourseIds, dis \in BOOLEAN : CameraWidgetMark(s, c, dis)
    \/ UpdatePartialAttendance
    \/ \E c \in DOMAIN courses, t \in CustomEnds : EndLectureEarly(c, today, t)
    \/ \E c \in DOMAIN courses : CancelLecture(c, today)
    \/ \E c \in CourseIds, s \in Students : EnrollStudent(c, s)
    \/ \E c \in CourseIds, s \in Students : UnenrollStudent(c, s)

Spec == Init /\ [][Next]_vars

\* the same program followed on a fine clock: one enrolled student, today's
\* lecture, and the other date reached by cancellation and early dismissal
InitTiming ==
    /\ now = 474
    /\ today = 1
    /\ courses = [c \in {101} |-> Course101]
    /\ enrollments = {<<101, "S1">>}
    /\ attendance = EmptyBag
    /\ lecture_custom_times = << >>
    /\ last = Call("init", "", 0, 0, "None", << >>)
    /\ WidgetClosed
    /\ RecognitionIdle

NextTiming ==
    \/ Tick(Times)
    \/ \E s \in TimingStudents, c \in DOMAIN courses, st \in ManualStatuses :
          MarkAttendance(s, c, today, now, st)
    \/ \E s \in TimingStudents, c \in CourseIds : AutoMark(s, c)
    \/ \E rec \in RecognizedLists(TimingStudents), c \in DOMAIN courses :
          MarkRecognized(rec, c)
    \/ \E s \in TimingStudents, c \in DOMAIN courses : AttendanceWindowMark(s, c)
    \/ \E s \in TimingStudents, c \in DOMAIN courses, dis \in BOOLEAN :
          CameraWidgetMark(s, c, dis)
    \/ UpdatePartialAttendance
    \/ \E c \in DOMAIN courses, t \in CustomEnds : EndLectureEarly(c, today, t)
    \/ \E c \in DOMAIN courses, d \in Dates : CancelLecture(c, d)

SpecTiming == InitTiming /\ [][NextTiming]_vars

\* the same program with the date selector of the manual widget in use: the
\* manual marking and the cancellation reach every date, the automatic
\* marking and the reconciliation work on today
InitDates ==
    /\ now = 496
    /\ today = 1
    /\ courses = [c \in {101} |-> Course101]
    /\ enrollments = {<<101, "S1">>}
    /\ attendance = EmptyBag
    /\ lecture_custom_times = << >>
    /\ last = Call("init", "", 0, 0, "None", << >>)
    /\ WidgetClosed
    /\ RecognitionIdle

NextDates ==
    \/ Tick(CoarseTimes)
    \/ \E s \in TimingStudents, c \in DOMAIN courses, d \in Dates, st \in ManualStatuses :
          MarkAttendance(s, c, d, now, st)
    \/ \E s \in TimingStudents, c \in DOMAIN courses : AutoMark(s, c)
    \/ UpdatePartialAttendance
    \/ \E c \in DOMAIN courses, d \in Dates : CancelLecture(c, d)

SpecDates == InitDates /\ [][NextDates]_vars

\* the automatic paths of one camera session while the teacher sets custom end
\* times for lectures of both courses and of every date
InitEnds ==
    /\ now = 496
    /\ today = 1
    /\ courses = [c \in CourseIds |-> IF c = 101 THEN Course101 ELSE Course102]
    /\ enrollments = {<<101, "S1">>}
    /\ attendance = EmptyBag
    /\ lecture_custom_times = << >>
    /\ last = Call("init", "", 0, 0, "None", << >>)
    /\ WidgetClosed
    /\ RecognitionIdle

NextEnds ==
    \/ Tick(EndClock)
    \/ \E s \in TimingStudents, c \in SessionCourses : AutoMark(s, c)
    \/ \E rec \in RecognizedLists(TimingStudents), c \in SessionCourses :
          MarkRecognized(rec, c)
    \/ \E c \in SessionCourses, t \in LaterCustomEnds : EndLectureEarly(c, today, t)
    \/ \E c \in DOMAIN courses, d \in Dates, t \in CustomEnds : EndLectureEarly(c, d, t)

SpecEnds == InitEnds /\ [][NextEnds]_vars

\* --------------------------------------------------- camera session, frames
\* a detected face: where it is and how far it is from each gallery entry
FacesAt(P, D) == [position : P, distances : D]
\* a captured frame: analyze_texture is computed on the whole frame
FramesOf(F) ==
    [texture : BOOLEAN, faces : UNION {[1..n -> F] : n \in 0..MaxFaces}]

\* what camera.read() hands over when it fails
NoFrame == [texture |-> FALSE, faces |-> << >>]

\* ViTFaceRecognitionSystem.load_face_encodings
LoadFaceEncodings ==
    /\ known_face_ids' = LoadedIds(users)
    /\ known_face_encodings' = LoadedEncodings(users)
    /\ last' = Call("load_face_encodings", "", 0, 0, "None", << >>)
    /\ UNCHANGED <<now, today, courses, enrollments, attendance, lecture_custom_times,
                   liveness_detector, camera, recognition_results, users, manual>>

\* AttendanceWindow.__init__ / start_camera on the shared recognition system
StartCamera(c) ==
    /\ camera = NULL
    /\ camera' = c
    /\ last' = Call("start_camera", "", c, today, "None", << >>)
    /\ UNCHANGED <<now, today, courses, enrollments, attendance, lecture_custom_times,
                   known_face_ids, liveness_detector, recognition_results,
                   registry, manual>>

StopCamera ==
    /\ camera # NULL
    /\ camera' = NULL
    /\ last' = Call("stop_camera", "", camera, today, "None", << >>)
    /\ UNCHANGED <<now, today, courses, enrollments, attendance, lecture_custom_times,
                   known_face_ids, liveness_detector, recognition_results,
                   registry, manual>>

\* AttendanceWindow.update_frame: ret is what camera.read() reports; the call
\* is recorded with the frame it read
UpdateFrame(ret, frame) ==
    /\ camera # NULL
    /\ IF ~ret
       THEN /\ camera' = NULL
            /\ UNCHANGED <<liveness_detector, recognition_results,
                   registry, manual>>
       ELSE LET out == RecognizeFaces(liveness_detector, frame, camera) IN
            /\ out.ld.head_movement_count <= MaxEvidence
            /\ liveness_detector' = out.ld
            /\ recognition_results' =
                  [recognized |-> out.recognized, unrecognized |-> out.unrecognized]
            /\ camera' = camera
    /\ last' = Call("update_frame", "", camera, today,
                    IF ret THEN "True" ELSE "False", <<frame>>)
    /\ UNCHANGED <<now, today, courses, enrollments, attendance, lecture_custom_times,
                   known_face_ids,
                   registry, manual>>

\* a direct call of LivenessDetector.check_liveness, recorded with the outcome
\* of analyze_texture
CheckLivenessCall(texture_check, landmarks, face_position) ==
    LET chk == CheckLiveness(liveness_detector, texture_check, landmarks, face_position)
    IN  /\ chk.ld.blink_count <= MaxEvidence
        /\ chk.ld.head_movement_count <= MaxEvidence
        /\ liveness_detector' = chk.ld
        /\ last' = Call("check_liveness", "", 0, 0,
                        IF chk.live THEN "True" ELSE "False", <<texture_check>>)
        /\ UNCHANGED <<now, today, courses, enrollments, attendance,
                       lecture_custom_times, known_face_ids, camera,
                       recognition_results,
                   registry, manual>>

\* LivenessDetector.reset
Reset ==
    /\ liveness_detector' = FreshDetector
    /\ last' = Call("reset", "", 0, 0, "None", << >>)
    /\ UNCHANGED <<now, today, courses, enrollments, attendance, lecture_custom_times,
                   known_face_ids, camera, recognition_results,
                   registry, manual>>

\* a detector that has seen a face rest at 0 and then move to 30
MovedDetector ==
    [blink_count |-> 0, head_movement_count |-> 1, last_face_position |-> 30,
     blink_history |-> << >>, movement_history |-> <<0, 0, 0, 0, 30>>]

\* the camera window of course 101 from the first frame on: S1 and S2 are in
\* the gallery, S1 is enrolled, every face matches S1
InitLiveness ==
    /\ now = 496
    /\ today = 1
    /\ courses = [c \in {101} |-> Course101]
    /\ enrollments = {<<101, "S1">>}
    /\ attendance = EmptyBag
    /\ lecture_custom_times = << >>
    /\ last = Call("init", "", 0, 0, "None", << >>)
    /\ WidgetClosed
    /\ users = RegisteredUsers
    /\ GalleryLoaded
    /\ liveness_detector = FreshDetector
    /\ camera = NULL
    /\ recognition_results = NoResults

NextLiveness ==
    \/ \E c \in SessionCourses : StartCamera(c)
    \/ StopCamera
    \/ \E frame \in FramesOf(FacesAt(Positions, {<<50, 99>>})) : UpdateFrame(TRUE, frame)
    \/ UpdateFrame(FALSE, NoFrame)

SpecLiveness == InitLiveness /\ [][NextLiveness]_vars

\* the camera window of course 101 once liveness evidence has been gathered:
\* the faces stay where they are; the gallery, the distances and the
\* enrollments vary
InitRecognition ==
    /\ now = 496
    /\ today = 1
    /\ courses = [c \in {101} |-> Course101]
    /\ enrollments = {<<101, "S1">>}
    /\ attendance = EmptyBag
    /\ lecture_custom_times = << >>
    /\ last = Call("init", "", 0, 0, "None", << >>)
    /\ WidgetClosed
    /\ users \in UserTables
    /\ GalleryLoaded
    /\ liveness_detector = MovedDetector
    /\ camera = NULL
    /\ recognition_results = NoResults

NextRecognition ==
    \/ \E c \in SessionCourses : StartCamera(c)
    \/ StopCamera
    \/ \E frame \in FramesOf(FacesAt({30}, DistanceVectors(known_face_ids))) :
          UpdateFrame(TRUE, frame)
    \/ UpdateFrame(FALSE, NoFrame)
    \/ \E c \in SessionCourses, s \in Students : EnrollStudent(c, s)
    \/ \E c \in SessionCourses, s \in Students : UnenrollStudent(c, s)

SpecRecognition == InitRecognition /\ [][NextRecognition]_vars

\* the liveness detector on its own, called with and without landmarks
InitDetector ==
    /\ now = 496
    /\ today = 1
    /\ courses = [c \in {101} |-> Course101]
    /\ enrollments = {<<101, "S1">>}
    /\ attendance = EmptyBag
    /\ lecture_custom_times = << >>
    /\ last = Call("init", "", 0, 0, "None", << >>)
    /\ WidgetClosed
    /\ RecognitionIdle

NextDetector ==
    \/ \E texture_check \in BOOLEAN, landmarks \in Ears \cup {NULL},
          face_position \in Positions \cup {NULL} :
          CheckLivenessCall(texture_check, landmarks, face_position)
    \/ Reset

SpecDetector == InitDetector /\ [][NextDetector]_vars

\* ------------------------------------------------ users table and gallery
RowIndex(u, user_id) == {i \in DOMAIN u : u[i].id = user_id}

\* Database.add_user: INSERT INTO users; id is the primary key
AddUserRow(u, user_id, face_encoding) ==
    IF RowIndex(u, user_id) # {}
    THEN [ok |-> FALSE, users |-> u]
    ELSE [ok |-> TRUE, users |-> Append(u, UserRow(user_id, face_encoding))]

\* Database.update_user with only face_encoding (and face_image) given:
\* UPDATE users SET face_encoding = ? WHERE id = ?, when face_encoding is not None
UpdateUserRow(u, user_id, face_encoding) ==
    IF face_encoding = NULL THEN u
    ELSE [i \in DOMAIN u |->
            IF u[i].id = user_id THEN [u[i] EXCEPT !.face_encoding = face_encoding]
            ELSE u[i]]

AddUser(user_id, face_encoding) ==
    LET ins == AddUserRow(users, user_id, face_encoding) IN
    /\ users' = ins.users
    /\ last' = Call("add_user", user_id, 0, 0, IF ins.ok THEN "True" ELSE "False", << >>)
    /\ UNCHANGED <<now, today, courses, enrollments, attendance, lecture_custom_times,
                   recognition, known_face_encodings, manual>>

UpdateUserReloading(user_id, face_encoding) ==
    /\ users' = UpdateUserRow(users, user_id, face_encoding)
    /\ known_face_ids' = LoadedIds(users')
    /\ known_face_encodings' = LoadedEncodings(users')
    /\ last' = Call("update_user", user_id, 0, 0, "True", << >>)
    /\ UNCHANGED <<now, today, courses, enrollments, attendance, lecture_custom_times,
                   liveness_detector, camera, recognition_results, manual>>

UpdateUser(user_id, face_encoding) ==
    /\ users' = UpdateUserRow(users, user_id, face_encoding)
    /\ last' = Call("update_user", user_id, 0, 0, "True", << >>)
    /\ UNCHANGED <<now, today, courses, enrollments, attendance, lecture_custom_times,
                   recognition, known_face_encodings, manual>>

\* Database.delete_user: DELETE FROM users WHERE id = ?
DeleteUser(user_id) ==
    /\ users' = SelectSeq(users, LAMBDA row : row.id # user_id)
    /\ last' = Call("delete_user", user_id, 0, 0, "None", << >>)
    /\ UNCHANGED <<now, today, courses, enrollments, attendance, lecture_custom_times,
                   recognition, known_face_encodings, manual>>

\* ViTFaceRecognitionSystem.encode_face: returns the pickled encoding of the
\* first face of the image, or None
EncodeFace(face_encoding) ==
    /\ last' = Call("encode_face", "", 0, 0,
                    IF face_encoding = NULL THEN "None" ELSE "encoding", << >>)
    /\ UNCHANGED <<now, today, courses, enrollments, attendance, lecture_custom_times,
                   recognition, registry, manual>>

\* FaceRegistrationDialog.save_face: update_user, then load_face_encodings
SaveFace(student_id, face_encoding) ==
    /\ face_encoding # NULL
    /\ users' = UpdateUserRow(users, student_id, face_encoding)
    /\ known_face_ids' = LoadedIds(users')
    /\ known_face_encodings' = LoadedEncodings(users')
    /\ last' = Call("save_face", student_id, 0, 0, "None", << >>)
    /\ UNCHANGED <<now, today, courses, enrollments, attendance, lecture_custom_times,
                   liveness_detector, camera, recognition_results, manual>>

\* AdminWindow.show_add_user_dialog: add_user without an encoding; when the
\* user was added and encode_face found a face in the image, update_user and
\* load_face_encodings
ShowAddUserDialog(user_id, face_encoding) ==
    LET ins == AddUserRow(users, user_id, NULL)
        reload == ins.ok /\ face_encoding # NULL
    IN
    /\ users' = IF reload THEN UpdateUserRow(ins.users, user_id, face_encoding)
                ELSE ins.users
    /\ known_face_ids' = IF reload THEN LoadedIds(users') ELSE known_face_ids
    /\ known_face_encodings' =
          IF reload THEN LoadedEncodings(users') ELSE known_face_encodings
    /\ last' = Call("show_add_user_dialog", user_id, 0, 0,
                    IF ins.ok THEN "True" ELSE "False", << >>)
    /\ UNCHANGED <<now, today, courses, enrollments, attendance, lecture_custom_times,
                   liveness_detector, camera, recognition_results, manual>>

\* every gallery entry at distance 0.50 from the face
NearDistances(gallery) == {[i \in DOMAIN gallery |-> 50]}
\* the students of the last recognition result, in order
RecognizedIds ==
    [i \in DOMAIN recognition_results.recognized |->
        recognition_results.recognized[i].student_id]

\* the admin window changes the row of one student in the users table while
\* the camera window of course 101 recognises faces and marks attendance
InitGallery ==
    /\ now = 496
    /\ today = 1
    /\ courses = [c \in {101} |-> Course101]
    /\ enrollments = {<<101, "S1">>}
    /\ attendance = EmptyBag
    /\ lecture_custom_times = << >>
    /\ last = Call("init", "", 0, 0, "None", << >>)
    /\ WidgetClosed
    /\ users = << >>
    /\ GalleryLoaded
    /\ liveness_detector = MovedDetector
    /\ camera = NULL
    /\ recognition_results = NoResults

NextGallery ==
    \/ \E s \in TimingStudents, e \in Encodings \cup {NULL} : AddUser(s, e)
    \/ \E s \in TimingStudents, e \in Encodings \cup {NULL} : UpdateUser(s, e)
    \/ \E s \in TimingStudents : DeleteUser(s)
    \/ \E e \in Encodings \cup {NULL} : EncodeFace(e)
    \/ \E s \in TimingStudents, e \in Encodings : SaveFace(s, e)
    \/ \E s \in TimingStudents, e \in Encodings \cup {NULL} : ShowAddUserDialog(s, e)
    \/ LoadFaceEncodings
    \/ \E c \in SessionCourses : StartCamera(c)
    \/ StopCamera
    \/ \E frame \in FramesOf(FacesAt({30}, NearDistances(known_face_ids))) :
          UpdateFrame(TRUE, frame)
    \/ RecognizedIds # << >> /\ MarkRecognized(RecognizedIds, camera)

SpecGallery == InitGallery /\ [][NextGallery]_vars

\* the enrollment dialog of the admin window on the sections of two courses
InitEnroll ==
    /\ now = 496
    /\ today = 1
    /\ courses = [c \in {101, 102, 103} |->
                    IF c = 101 THEN Course101
                    ELSE IF c = 102 THEN Course101Section2 ELSE Course102]
    /\ enrollments = {}
    /\ attendance = EmptyBag
    /\ lecture_custom_times = << >>
    /\ last = Call("init", "", 0, 0, "None", << >>)
    /\ WidgetClosed
    /\ RecognitionIdle

NextEnroll ==
    \/ \E c \in SectionIds, s \in Students : EnrollStudent(c, s)
    \/ \E c \in SectionIds, s \in Students : UnenrollStudent(c, s)

SpecEnroll == InitEnroll /\ [][NextEnroll]_vars

\* ------------------------------------------------- ManualAttendanceWidget
\* Database.get_enrolled_students: enrollments joined with users
EnrolledUsers(c) ==
    {st \in EnrolledStudents(c) : RowIndex(users, st) # {}}

\* load_existing_attendance for the date: the lecture_cancelled flag, the combo
\* boxes and last_saved_statuses after it
LoadExistingAttendance(att, c, date, combo, saved) ==
    LET cancelled == \E r \in LectureRows(att, c, date) : r.is_cancelled = 1
        records == {r \in LectureRows(att, c, date) : r.is_cancelled = 0}
        StatusOf(st) == (CHOOSE r \in records : r.student_id = st).status
        recorded == {r.student_id : r \in records}
    IN  IF cancelled
        THEN [lecture_cancelled |-> TRUE, status_combo |-> combo,
              last_saved_statuses |-> saved]
        ELSE [lecture_cancelled |-> FALSE,
              \* set_student_status: findText(status) >= 0
              status_combo |->
                 [st \in DOMAIN combo |->
                     IF st \in recorded /\ StatusOf(st) \in ManualStatuses
                     THEN StatusOf(st) ELSE combo[st]],
              last_saved_statuses |->
                 [st \in DOMAIN saved \cup recorded |->
                     IF st \in recorded THEN StatusOf(st) ELSE saved[st]]]

\* ManualAttendanceWidget.__init__: load_students, load_existing_attendance
OpenWidget(c) ==
    LET loaded == LoadExistingAttendance(attendance, c, today,
                     [st \in EnrolledUsers(c) |-> STATUS_PRESENT], << >>)
    IN
    /\ widget_course_id = NULL
    /\ c \in DOMAIN courses
    /\ widget_course_id' = c
    /\ date_edit' = today
    /\ pending_saves' = {}
    /\ status_combo' = loaded.status_combo
    /\ last_saved_statuses' = loaded.last_saved_statuses
    /\ lecture_cancelled' = loaded.lecture_cancelled
    /\ edit_log' = << >>
    /\ last' = Call("open_widget", "", c, today, "None", << >>)
    /\ UNCHANGED <<now, today, courses, enrollments, attendance, lecture_custom_times,
                   recognition, registry>>

\* on_date_changed: the combo boxes back to Present, last_saved_statuses
\* cleared, load_existing_attendance for the new date
OnDateChanged(d) ==
    LET loaded == LoadExistingAttendance(attendance, widget_course_id, d,
                     [st \in DOMAIN status_combo |-> STATUS_PRESENT], << >>)
    IN
    /\ widget_course_id # NULL
    /\ d # date_edit
    /\ date_edit' = d
    /\ status_combo' = loaded.status_combo
    /\ last_saved_statuses' = loaded.last_saved_statuses
    /\ lecture_cancelled' = loaded.lecture_cancelled
    /\ last' = Call("on_date_changed", "", widget_course_id, d, "None", << >>)
    /\ UNCHANGED <<now, today, courses, enrollments, attendance, lecture_custom_times,
                   recognition, registry, widget_course_id, pending_saves, edit_log>>

\* on_status_changed(student_id): pending_saves after it
OnStatusChanged(student_id, current_status) ==
    IF lecture_cancelled THEN pending_saves
    ELSE IF /\ student_id \in DOMAIN last_saved_statuses
            /\ last_saved_statuses[student_id] = current_status
    THEN pending_saves
    ELSE pending_saves \cup {student_id}

\* the teacher picks another status in the combo box of a student (the combo
\* boxes are disabled while the lecture is cancelled); on_status_changed
SelectStatus(student_id, status) ==
    /\ widget_course_id # NULL
    /\ ~lecture_cancelled
    /\ student_id \in DOMAIN status_combo
    /\ status # status_combo[student_id]
    /\ status_combo' = [status_combo EXCEPT ![student_id] = status]
    /\ pending_saves' = OnStatusChanged(student_id, status)
    /\ edit_log' = [st \in DOMAIN edit_log \cup {student_id} |->
                      IF st = student_id THEN [date |-> date_edit, status |-> status]
                      ELSE edit_log[st]]
    /\ last' = Call("on_status_changed", student_id, widget_course_id, date_edit,
                    "None", << >>)
    /\ UNCHANGED <<now, today, courses, enrollments, attendance, lecture_custom_times,
                   recognition, registry, widget_course_id, date_edit,
                   last_saved_statuses, lecture_cancelled>>

\* the loop of process_pending_saves over list(self.pending_saves): the table,
\* last_saved_statuses and the mark_attendance calls made so far
RECURSIVE DrainLoop(_, _, _, _)
DrainLoop(att, pending, saved, calls) ==
    IF pending = {} THEN [att |-> att, last_saved_statuses |-> saved, calls |-> calls]
    ELSE LET student_id == CHOOSE st \in pending : TRUE
             status == status_combo[student_id]
             result == MarkAttendanceOn(att, student_id, widget_course_id,
                                        date_edit, now, status)
         IN  DrainLoop(result.att, pending \ {student_id},
                       IF result.ok
                       THEN [st \in DOMAIN saved \cup {student_id} |->
                               IF st = student_id THEN status ELSE saved[st]]
                       ELSE saved,
                       Append(calls, [student_id |-> student_id, date |-> date_edit,
                                      status |-> status, success |-> result.ok]))

\* process_pending_saves: the tick of auto_save_timer
ProcessPendingSaves ==
    /\ widget_course_id # NULL
    /\ IF pending_saves = {} \/ lecture_cancelled
       THEN /\ UNCHANGED <<attendance, pending_saves, last_saved_statuses>>
            /\ last' = Call("process_pending_saves", "", widget_course_id,
                            date_edit, "None", << >>)
       ELSE LET run == DrainLoop(attendance, pending_saves, last_saved_statuses, << >>)
            IN  /\ attendance' = run.att
                /\ last_saved_statuses' = run.last_saved_statuses
                /\ pending_saves' = {}
                /\ last' = Call("process_pending_saves", "", widget_course_id,
                                date_edit, "None", run.calls)
    /\ UNCHANGED <<now, today, courses, enrollments, lecture_custom_times,
                   recognition, registry, widget_course_id, date_edit, status_combo,
                   lecture_cancelled, edit_log>>

\* ManualAttendanceWidget.cancel_lecture for the selected date
WidgetCancelLecture ==
    LET run == CancelLectureOn(attendance, widget_course_id, date_edit) IN
    /\ widget_course_id # NULL
    /\ attendance' = run.att
    /\ lecture_cancelled' = (lecture_cancelled \/ run.ok)
    /\ last' = Call("cancel_lecture", "", widget_course_id, date_edit,
                    IF run.ok THEN "True" ELSE "False", << >>)
    /\ UNCHANGED <<now, today, courses, enrollments, lecture_custom_times,
                   recognition, registry, widget_course_id, date_edit, status_combo,
                   pending_saves, last_saved_statuses, edit_log>>

\* the manual attendance widget of course 101 with its date selector
InitManual ==
    /\ now = 496
    /\ today = 1
    /\ courses = [c \in {101} |-> Course101]
    /\ enrollments = {<<101, "S1">>}
    /\ attendance = EmptyBag
    /\ lecture_custom_times = << >>
    /\ last = Call("init", "", 0, 0, "None", << >>)
    /\ WidgetClosed
    /\ users = RegisteredUsers
    /\ GalleryLoaded
    /\ liveness_detector = FreshDetector
    /\ camera = NULL
    /\ recognition_results = NoResults

NextManual ==
    \/ \E c \in SessionCourses : OpenWidget(c)
    \/ \E d \in Dates : OnDateChanged(d)
    \/ \E st \in TimingStudents, status \in CoarseStatuses : SelectStatus(st, status)
    \/ ProcessPendingSaves
    \/ WidgetCancelLecture

SpecManual == InitManual /\ [][NextManual]_vars

\* clock values shown by time_label after the widget was opened
PersistTimes == {520, 545}

\* the widget on one date, with auto_save_timer firing every two seconds for
\* as long as the widget is open
NextPersist ==
    \/ Tick(PersistTimes)
    \/ \E c \in SessionCourses : OpenWidget(c)
    \/ \E st \in TimingStudents, status \in ManualStatuses : SelectStatus(st, status)
    \/ ProcessPendingSaves

SpecPersist == InitManual /\ [][NextPersist]_vars /\ WF_vars(ProcessPendingSaves)

\* the two check-ins of one student on the fine clock, with the teacher window
\* closed (TeacherWindow.closeEvent) at any moment of the day
NextReconcile ==
    \/ Tick(Times)
    \/ \E s \in TimingStudents, c \in DOMAIN courses : AutoMark(s, c)
    \/ \E rec \in RecognizedLists(TimingStudents), c \in DOMAIN courses :
          MarkRecognized(rec, c)
    \/ UpdatePartialAttendance

SpecReconcile == InitTiming /\ [][NextReconcile]_vars

\* lectures next to midnight: 00:02 - 01:02 and 22:58 - 23:58
CourseAfterMidnight ==
    [code |-> "CS201", start_time |-> 2, end_time |-> 62, capacity |-> 2]
CourseBeforeMidnight ==
    [code |-> "CS202", start_time |-> 1378, end_time |-> 1438, capacity |-> 2]
\* 101 is the 08:00 - 09:00 lecture
MidnightCourseIds == {101, 201, 202}
\* clock readings of that day: the start and the end of every lecture
MidnightTimes == {2, 62, 480, 540, 1378, 1438}

InitMidnight ==
    /\ now = 0
    /\ today = 1
    /\ courses = [c \in MidnightCourseIds |->
                    IF c = 101 THEN Course101
                    ELSE IF c = 201 THEN CourseAfterMidnight
                    ELSE CourseBeforeMidnight]
    /\ enrollments = {<<c, "S1">> : c \in MidnightCourseIds}
    /\ attendance = EmptyBag
    /\ lecture_custom_times = << >>
    /\ last = Call("init", "", 0, 0, "None", << >>)
    /\ WidgetClosed
    /\ RecognitionIdle

NextMidnight ==
    \/ Tick(MidnightTimes)
    \/ \E s \in TimingStudents, c \in DOMAIN courses : AutoMark(s, c)
    \/ \E rec \in RecognizedLists(TimingStudents), c \in DOMAIN courses :
          MarkRecognized(rec, c)

SpecMidnight == InitMidnight /\ [][NextMidnight]_vars

\* ======================================================================
\* Properties
\* ======================================================================
\* rows of the table for a key, and for a lecture, read off the state
RowsAt(att, s, c, d) ==
    {r \in DOMAIN att : r.student_id = s /\ r.course_id = c /\ r.date = d}
RowsOfLecture(att, c, d) == {r \in DOMAIN att : r.course_id = c /\ r.date = d}
\* number of rows (with multiplicity) a key has
RowCountAt(att, s, c, d) == SumCounts(att, RowsAt(att, s, c, d))
\* the lecture of (c, d) has been cancelled: it has a cancelled row
LectureCancelled(att, c, d) == \E r \in RowsOfLecture(att, c, d) : r.is_cancelled = 1

\* C1: in every reachable state the attendance table holds at most one row per
\* (student_id, course_id, date): a call for a key that already has a row is a
\* no-op or an update, never a second row.
C1_AttendanceUnique ==
    \A s \in Students, c \in CourseIds, d \in Dates : RowCountAt(attendance, s, c, d) <= 1

\* a manual mark_attendance for a key that already had a row updated that row
C1_Witness ==
    /\ last.op = "mark_attendance" /\ last.ret = "True"
    /\ \E r \in RowsAt(attendance, last.student_id, last.course_id, last.date) :
          r.second_time # NULL /\ r.time # r.second_time

\* C2: cancellation is terminal for the date: once the lecture of (course,
\* date) is cancelled, every attendance row of that (course, date) has
\* is_cancelled = 1 in every later state; no marking creates or leaves a
\* non-cancelled row for that date.
C2_CancellationTerminal ==
    \A c \in CourseIds, d \in Dates :
        LectureCancelled(attendance, c, d) =>
            \A r \in RowsOfLecture(attendance, c, d) : r.is_cancelled = 1

\* C3: a cancelled record is frozen: no step changes or removes a row that has
\* is_cancelled = 1, and mark_attendance and auto_mark_attendance return False
\* when called for the key of such a row.
C3_CancelledFrozen ==
    [][/\ \A r \in DOMAIN attendance :
             r.is_cancelled = 1 =>
                /\ r \in DOMAIN attendance'
                /\ attendance'[r] = attendance[r]
                /\ RowsAt(attendance', r.student_id, r.course_id, r.date) = {r}
       /\ (/\ last'.op \in {"mark_attendance", "auto_mark_attendance"}
           /\ \E r \in RowsAt(attendance, last'.student_id, last'.course_id, last'.date) :
                 r.is_cancelled = 1)
          => last'.ret = "False"]_vars

\* a marking call was made for a cancelled row that carries a check-in time
C3_Witness ==
    /\ last.op \in {"mark_attendance", "auto_mark_attendance"}
    /\ last.ret = "False"
    /\ \E r \in RowsAt(attendance, last.student_id, last.course_id, last.date) :
          r.is_cancelled = 1 /\ r.time # NULL /\ r.second_time = NULL

\* C4: after cancel_lecture(course, date) returns success, every student
\* enrolled in the course has exactly one attendance row for that date, with
\* status N/A and is_cancelled = 1, whatever rows existed before the call.
C4_CancelCoversEnrolled ==
    (last.op = "cancel_lecture" /\ last.ret = "True") =>
        \A s \in Students :
            <<last.course_id, s>> \in enrollments =>
                /\ RowCountAt(attendance, s, last.course_id, last.date) = 1
                /\ \A r \in RowsAt(attendance, s, last.course_id, last.date) :
                      r.status = STATUS_NA /\ r.is_cancelled = 1

\* C5: cancel_lecture is idempotent: on a date that already has a cancelled
\* row, and when it directly follows a successful cancel_lecture of the same
\* (course, date), it returns success and leaves the attendance table unchanged.
C5_CancelIdempotent ==
    [][(/\ last'.op = "cancel_lecture"
        /\ \/ LectureCancelled(attendance, last'.course_id, last'.date)
           \/ /\ last.op = "cancel_lecture" /\ last.ret = "True"
              /\ last.course_id = last'.course_id /\ last.date = last'.date)
       => (last'.ret = "True" /\ attendance' = attendance)]_vars

\* a second cancel_lecture of a date on which some student had checked in and
\* another student got a row only after the first cancellation
C5_Witness ==
    /\ last.op = "cancel_lecture" /\ last.ret = "True"
    /\ \E r \in RowsOfLecture(attendance, last.course_id, last.date) :
          r.is_cancelled = 1 /\ r.time # NULL
    /\ \E r \in RowsOfLecture(attendance, last.course_id, last.date) :
          r.is_cancelled = 0

\* ---------------------------------------------------------------- timing
\* the schedule as the properties read it: plain minutes, no wrap-around
StartTimeOf(c) == courses[c].start_time
EndTimeOf(c, d) ==
    IF <<c, d>> \in DOMAIN lecture_custom_times
    THEN lecture_custom_times[<<c, d>>] ELSE courses[c].end_time

\* the step is a call of auto_mark_attendance(s, c)
AutoCalled(s, c) ==
    /\ last'.op = "auto_mark_attendance"
    /\ last'.student_id = s /\ last'.course_id = c
AutoAccepted == last'.ret = "True"

\* the step is a call of mark_attendance_for_recognized_students for course c
\* with the enrolled student s among the recognised ones
RecognizedCalled(s, c) ==
    /\ last'.op = "mark_recognized" /\ last'.course_id = c
    /\ <<c, s>> \in enrollments
    /\ \E i \in DOMAIN last'.results : last'.results[i].student_id = s
RecognizedAccepted(s) ==
    \E i \in DOMAIN last'.results :
        last'.results[i].student_id = s /\ last'.results[i].success
RecognizedMessages(s) ==
    {last'.results[i].message :
        i \in {j \in DOMAIN last'.results : last'.results[j].student_id = s}}

\* C6: for a student with no record for the day, auto_mark_attendance and
\* mark_attendance_for_recognized_students both reject a check-in later than
\* end - EARLY_DEPARTURE_THRESHOLD (effective end) and create no row, and both
\* accept a check-in from start - EARLY_ARRIVAL_MARGIN up to that time.
C6_FirstWindowCloses ==
    [][\A s \in Students, c \in DOMAIN courses :
          LET open == StartTimeOf(c) - EARLY_ARRIVAL_MARGIN
              close == EndTimeOf(c, today) - EARLY_DEPARTURE_THRESHOLD
              post == RowsAt(attendance', s, c, today)
          IN  RowsAt(attendance, s, c, today) = {} =>
                /\ AutoCalled(s, c) =>
                     /\ now > close => (post = {} /\ ~AutoAccepted)
                     /\ (open <= now /\ now <= close) => (post # {} /\ AutoAccepted)
                /\ RecognizedCalled(s, c) =>
                     /\ now > close => (post = {} /\ ~RecognizedAccepted(s))
                     /\ (open <= now /\ now <= close) =>
                            (post # {} /\ RecognizedAccepted(s))]_vars

\* C7: for a student with no record for the day an automatic check-in earlier
\* than start - EARLY_ARRIVAL_MARGIN is rejected (too early) and creates no
\* row; one at start - EARLY_ARRIVAL_MARGIN or later, up to
\* end - EARLY_DEPARTURE_THRESHOLD where the earliest reading of the closing
\* time lies, is accepted and creates the row.
C7_EarlyArrival ==
    [][\A s \in Students, c \in DOMAIN courses :
          LET open == StartTimeOf(c) - EARLY_ARRIVAL_MARGIN
              close == EndTimeOf(c, today) - EARLY_DEPARTURE_THRESHOLD
              post == RowsAt(attendance', s, c, today)
          IN  RowsAt(attendance, s, c, today) = {} =>
                /\ AutoCalled(s, c) =>
                     /\ now < open => (post = {} /\ ~AutoAccepted)
                     /\ (open <= now /\ now <= close) => (post # {} /\ AutoAccepted)
                /\ RecognizedCalled(s, c) =>
                     /\ now < open =>
                            /\ post = {} /\ ~RecognizedAccepted(s)
                            /\ RecognizedMessages(s) = {"Too early"}
                     /\ (open <= now /\ now <= close) =>
                            (post # {} /\ RecognizedAccepted(s))]_vars

\* auto_mark_attendance accepted a first check-in at exactly 07:55
C7_Witness ==
    /\ last.op = "auto_mark_attendance" /\ last.ret = "True"
    /\ now = Course101.start_time - EARLY_ARRIVAL_MARGIN
    /\ \E r \in RowsAt(attendance, last.student_id, last.course_id, today) :
          r.time = now /\ r.second_time = NULL

\* C8: every record created by a first check-in of an automatic marking path
\* (auto_mark_attendance, mark_attendance_for_recognized_students, the camera
\* windows' mark_attendance) has first time = now, and status Present if
\* now <= start + LATE_THRESHOLD and Late otherwise.
C8_FirstCheckInRecord ==
    [][\A s \in Students, c \in DOMAIN courses :
          (/\ last'.op \in {"auto_mark_attendance", "mark_recognized",
                            "window_mark_attendance", "camera_mark_attendance"}
           /\ RowsAt(attendance, s, c, today) = {})
          => \A r \in RowsAt(attendance', s, c, today) :
                /\ r.time = now
                /\ r.is_cancelled = 0
                /\ r.status = IF now <= StartTimeOf(c) + LATE_THRESHOLD
                              THEN STATUS_PRESENT ELSE STATUS_LATE]_vars

\* auto_mark_attendance created a Present record at exactly 08:15
C8_Witness ==
    /\ last.op = "auto_mark_attendance" /\ last.ret = "True"
    /\ now = Course101.start_time + LATE_THRESHOLD
    /\ \E r \in RowsAt(attendance, last.student_id, last.course_id, today) :
          r.time = now /\ r.status = STATUS_PRESENT

\* C9: for a non-cancelled record whose second_time is null,
\* auto_mark_attendance (and mark_attendance_for_recognized_students, for an
\* enrolled student) sets second_time = now and reports success if and only if
\* end - SECOND_CHECKIN_WINDOW <= now <= end + SECOND_CHECKIN_WINDOW with the
\* effective end time; otherwise the record is left as it was.
C9_SecondCheckInWindow ==
    [][\A s \in Students, c \in DOMAIN courses :
          \A r \in RowsAt(attendance, s, c, today) :
             (r.is_cancelled = 0 /\ r.second_time = NULL) =>
                LET end == EndTimeOf(c, today)
                    inWindow == /\ end - SECOND_CHECKIN_WINDOW <= now
                                /\ now <= end + SECOND_CHECKIN_WINDOW
                    post == RowsAt(attendance', s, c, today)
                    checkedIn == post = {[r EXCEPT !.second_time = now]}
                IN  /\ AutoCalled(s, c) =>
                         /\ (AutoAccepted /\ checkedIn) <=> inWindow
                         /\ ~inWindow => (~AutoAccepted /\ post = {r})
                    /\ RecognizedCalled(s, c) =>
                         /\ (RecognizedAccepted(s) /\ checkedIn) <=> inWindow
                         /\ ~inWindow => (~RecognizedAccepted(s) /\ post = {r})]_vars

\* auto_mark_attendance recorded a second check-in at 08:58 (end 09:00)
C9_Witness ==
    /\ last.op = "auto_mark_attendance" /\ last.ret = "True"
    /\ now = 538
    /\ ~(<<last.course_id, today>> \in DOMAIN lecture_custom_times)
    /\ \E r \in RowsAt(attendance, last.student_id, last.course_id, today) :
          r.second_time = now /\ r.time < now

\* C10: an accepted second check-in (auto_mark_attendance or
\* mark_attendance_for_recognized_students) changes only second_time: every
\* row that was in the table is either still there unchanged or is a row of a
\* student of the call whose second_time alone went from null to now.
C10_SecondCheckInFrame ==
    [][last'.op \in {"auto_mark_attendance", "mark_recognized"} =>
          \A r \in DOMAIN attendance :
             \/ r \in DOMAIN attendance' /\ attendance'[r] = attendance[r]
             \/ /\ r.second_time = NULL
                /\ r.course_id = last'.course_id /\ r.date = today
                /\ \/ AutoCalled(r.student_id, r.course_id) /\ AutoAccepted
                   \/ RecognizedCalled(r.student_id, r.course_id)
                      /\ RecognizedAccepted(r.student_id)
                /\ RowsAt(attendance', r.student_id, r.course_id, r.date) =
                      {[r EXCEPT !.second_time = now]}]_vars

\* a second check-in was accepted for a record that is not Present while
\* another student has a record of the same lecture
C10_Witness ==
    /\ last.op = "auto_mark_attendance" /\ last.ret = "True"
    /\ \E r \in RowsAt(attendance, last.student_id, last.course_id, today) :
          /\ r.second_time = now /\ r.time < now /\ r.status = STATUS_LATE
          /\ \E o \in RowsOfLecture(attendance, last.course_id, today) :
                o.student_id # r.student_id
\* C11: every rejected call of auto_mark_attendance returns False and leaves
\* the tables unchanged: a call for an unknown course, for a cancelled record,
\* for a record whose second_time is set, for a record outside the second
\* check-in window, and a first check-in before start - EARLY_ARRIVAL_MARGIN
\* or after the effective end is rejected; a rejected call changes nothing; and
\* the same call repeated directly after a rejected one is rejected again.
C11_RejectedAutoMarkNoOp ==
    [][\A s \in Students, c \in CourseIds :
          AutoCalled(s, c) =>
             LET rows == RowsAt(attendance, s, c, today)
                 reject ==
                    \/ c \notin DOMAIN courses
                    \/ /\ c \in DOMAIN courses
                       /\ \/ \E r \in rows :
                                \/ r.is_cancelled = 1
                                \/ r.second_time # NULL
                                \/ now < EndTimeOf(c, today) - SECOND_CHECKIN_WINDOW
                                \/ now > EndTimeOf(c, today) + SECOND_CHECKIN_WINDOW
                          \/ /\ rows = {}
                             /\ \/ now < StartTimeOf(c) - EARLY_ARRIVAL_MARGIN
                                \/ now > EndTimeOf(c, today)
             IN  /\ reject => last'.ret = "False"
                 /\ last'.ret \in {"True", "False"}
                 /\ last'.ret = "False" =>
                       /\ attendance' = attendance
                       /\ UNCHANGED <<now, today, courses, enrollments, lecture_custom_times>>
                 /\ (/\ last.op = "auto_mark_attendance" /\ last.ret = "False"
                     /\ last.student_id = s /\ last.course_id = c)
                    => last'.ret = "False"]_vars

\* a first check-in was rejected as too early; the table has no row of the key
C11_Witness ==
    /\ last.op = "auto_mark_attendance" /\ last.ret = "False"
    /\ last.course_id \in DOMAIN courses
    /\ now < Course101.start_time - EARLY_ARRIVAL_MARGIN
    /\ RowsAt(attendance, last.student_id, last.course_id, today) = {}
\* C12: after update_partial_attendance has run, no non-cancelled record with
\* first time set, second_time null and status Present remains in the table.
C12_ReconciliationComplete ==
    last.op = "update_partial_attendance" =>
        \A r \in DOMAIN attendance :
            ~(/\ r.is_cancelled = 0 /\ r.time # NULL /\ r.second_time = NULL
              /\ r.status = STATUS_PRESENT)
\* C13: update_partial_attendance leaves unchanged every record that is Late
\* with no second check-in, has second_time set or is cancelled; of any other
\* record it changes at most the status (to Unauthorized Departure), never the
\* first time, second_time or is_cancelled; it adds and removes no row; and a
\* second run directly after a run leaves the table as it is.
C13_ReconciliationFrame ==
    [][last'.op = "update_partial_attendance" =>
          /\ \A r \in DOMAIN attendance :
                LET post == RowsAt(attendance', r.student_id, r.course_id, r.date)
                IN  /\ \/ post = {r}
                       \/ post = {[r EXCEPT !.status = STATUS_UNAUTHORIZED_DEPARTURE]}
                    /\ \A p \in post : attendance'[p] = attendance[r]
                    /\ (\/ r.status = STATUS_LATE /\ r.second_time = NULL
                        \/ r.second_time # NULL
                        \/ r.is_cancelled = 1) => post = {r}
          /\ \A p \in DOMAIN attendance' :
                RowsAt(attendance, p.student_id, p.course_id, p.date) # {}
          /\ last.op = "update_partial_attendance" => attendance' = attendance]_vars

\* the reconciliation ran on a table that holds a Late record of today with no
\* second check-in and a cancelled record of another date
C13_Witness ==
    /\ last.op = "update_partial_attendance"
    /\ \E r \in DOMAIN attendance :
          /\ r.date = today /\ r.status = STATUS_LATE
          /\ r.time # NULL /\ r.second_time = NULL /\ r.is_cancelled = 0
    /\ \E r \in DOMAIN attendance : r.date # today /\ r.is_cancelled = 1
\* C14: the manual override writes the record whatever its prior state:
\* mark_attendance for a key that is not cancelled returns True, also when the
\* record already has both times set, and returns False without any change
\* only when the record is cancelled.
C14_ManualOverrideWrites ==
    [][last'.op = "mark_attendance" =>
          LET rows == RowsAt(attendance, last'.student_id, last'.course_id, last'.date)
          IN  IF \E r \in rows : r.is_cancelled = 1
              THEN last'.ret = "False" /\ attendance' = attendance
              ELSE last'.ret = "True"]_vars
\* C15: end_lecture_early(course, date, t) stores t as the one custom end time
\* of (course, date) and touches no other entry, and nothing else changes the
\* stored end times; every timing decision of auto_mark_attendance and
\* mark_attendance_for_recognized_students uses the end time stored for
\* (course, today) if there is one and the scheduled end time otherwise, for
\* the closing of the first-check-in window (each path at its own distance
\* from that end time) and for the second-check-in window, whatever is stored
\* for other dates and other courses.
C15_CustomEndGoverns ==
    [][/\ last'.op = "end_lecture_early" =>
             LET k == <<last'.course_id, last'.date>>
             IN  /\ DOMAIN lecture_custom_times' = DOMAIN lecture_custom_times \cup {k}
                 /\ lecture_custom_times'[k] = last'.results[1]
                 /\ \A j \in DOMAIN lecture_custom_times :
                       j # k => lecture_custom_times'[j] = lecture_custom_times[j]
       /\ last'.op # "end_lecture_early" => lecture_custom_times' = lecture_custom_times
       /\ \A s \in Students, c \in DOMAIN courses :
             LET end == EndTimeOf(c, today)
                 open == StartTimeOf(c) - EARLY_ARRIVAL_MARGIN
                 rows == RowsAt(attendance, s, c, today)
                 inSecond == /\ end - SECOND_CHECKIN_WINDOW <= now
                             /\ now <= end + SECOND_CHECKIN_WINDOW
                 second == \E r \in rows : r.is_cancelled = 0 /\ r.second_time = NULL
             IN  /\ AutoCalled(s, c) =>
                      /\ rows = {} =>
                            (AutoAccepted <=>
                               (open <= now /\ now <= end - AUTO_EARLY_DEPARTURE_MINUTES))
                      /\ second => (AutoAccepted <=> inSecond)
                 /\ RecognizedCalled(s, c) =>
                      /\ rows = {} =>
                            (RecognizedAccepted(s) <=> (open <= now /\ now <= end))
                      /\ second => (RecognizedAccepted(s) <=> inSecond)]_vars

\* a second check-in was accepted at 08:54 under the custom end time 08:56,
\* while another date and the other course hold 08:50
C15_Witness ==
    /\ last.op = "auto_mark_attendance" /\ last.ret = "True"
    /\ now = 534
    /\ <<last.course_id, today>> \in DOMAIN lecture_custom_times
    /\ lecture_custom_times[<<last.course_id, today>>] = 536
    /\ \E k \in DOMAIN lecture_custom_times : k[1] = last.course_id /\ k[2] # today
    /\ \E k \in DOMAIN lecture_custom_times : k[1] # last.course_id /\ k[2] = today
    /\ \E r \in RowsAt(attendance, last.student_id, last.course_id, today) :
          r.second_time = now
\* ------------------------------------------------------------ recognition
\* the frame the last update_frame call read, and what was reported for the
\* face at location i of it
FrameOf(call) == call.results[1]
RecognizedAs(res, i) ==
    {res.recognized[k].student_id :
        k \in {j \in DOMAIN res.recognized : res.recognized[j].location = i}}
MessagesFor(res, i) ==
    {res.unrecognized[k].message :
        k \in {j \in DOMAIN res.unrecognized : res.unrecognized[j].location = i}}
ReportsFor(res, i) ==
    Cardinality({j \in DOMAIN res.recognized : res.recognized[j].location = i})
    + Cardinality({j \in DOMAIN res.unrecognized : res.unrecognized[j].location = i})
\* the first gallery position at which the distances are least
FirstLeast(distances) ==
    CHOOSE i \in DOMAIN distances :
        /\ \A j \in DOMAIN distances : distances[i] <= distances[j]
        /\ \A j \in DOMAIN distances : j < i => distances[j] > distances[i]

\* C16: after a recognize_faces call on a non-empty gallery every face of the
\* frame is reported once; a face that passed the liveness check is reported
\* as the student of the first gallery entry at the least distance if that
\* distance is <= FACE_RECOGNITION_TOLERANCE (as 'Not enrolled' if that student
\* is not enrolled in the course) and as 'Unknown' otherwise; with an empty
\* gallery nothing is reported as recognized.
C16_MatchIsNearest ==
    (last.op = "update_frame" /\ last.ret = "True") =>
        LET faces == FrameOf(last).faces
            res == recognition_results
        IN  IF known_face_ids = << >>
            THEN res.recognized = << >>
            ELSE \A i \in DOMAIN faces :
                    LET d == faces[i].distances
                        best == FirstLeast(d)
                        student == known_face_ids[best]
                    IN  /\ ReportsFor(res, i) = 1
                        /\ "Liveness check failed" \notin MessagesFor(res, i) =>
                              IF d[best] <= FACE_RECOGNITION_TOLERANCE
                              THEN IF <<last.course_id, student>> \in enrollments
                                   THEN RecognizedAs(res, i) = {student}
                                   ELSE MessagesFor(res, i) = {"Not enrolled"}
                              ELSE MessagesFor(res, i) = {"Unknown"}

\* a face at distance 0.98 from both gallery entries was reported as the first
\* of them, and another face of the frame as Unknown
C16_Witness ==
    /\ last.op = "update_frame" /\ last.ret = "True"
    /\ \E i \in DOMAIN FrameOf(last).faces :
          /\ FrameOf(last).faces[i].distances = <<98, 98>>
          /\ RecognizedAs(recognition_results, i) = {known_face_ids[1]}
    /\ \E i \in DOMAIN FrameOf(last).faces :
          MessagesFor(recognition_results, i) = {"Unknown"}
\* C17: after a recognize_faces call for a course every student reported as
\* recognized is enrolled in that course at the time of the call, and a face
\* whose nearest gallery entry is within the tolerance but belongs to a student
\* who is not enrolled is reported as unrecognized with 'Not enrolled'.
C17_RecognizedAreEnrolled ==
    (last.op = "update_frame" /\ last.ret = "True") =>
        LET faces == FrameOf(last).faces
            res == recognition_results
        IN  /\ \A k \in DOMAIN res.recognized :
                  <<last.course_id, res.recognized[k].student_id>> \in enrollments
            /\ known_face_ids # << >> =>
                  \A i \in DOMAIN faces :
                      LET d == faces[i].distances
                          student == known_face_ids[FirstLeast(d)]
                      IN  ( /\ d[FirstLeast(d)] <= FACE_RECOGNITION_TOLERANCE
                            /\ <<last.course_id, student>> \notin enrollments
                            /\ "Liveness check failed" \notin MessagesFor(res, i) )
                          => /\ MessagesFor(res, i) = {"Not enrolled"}
                             /\ RecognizedAs(res, i) = {}

\* one frame showed an enrolled student, who was recognized, and a student of
\* the gallery who is not enrolled, who was reported as 'Not enrolled'
C17_Witness ==
    /\ last.op = "update_frame" /\ last.ret = "True"
    /\ \E i, j \in DOMAIN FrameOf(last).faces :
          /\ RecognizedAs(recognition_results, i) # {}
          /\ MessagesFor(recognition_results, j) = {"Not enrolled"}
          /\ FrameOf(last).faces[j].distances[FirstLeast(FrameOf(last).faces[j].distances)]
                <= FACE_RECOGNITION_TOLERANCE
\* ---------------------------------------------------------------- liveness
\* the evidence check_liveness asks of a detector
Evidence(ld) ==
    \/ ld.blink_count >= required_blinks
    \/ ld.head_movement_count >= required_movements
LivenessFailed(res, i) == "Liveness check failed" \in MessagesFor(res, i)

\* C18: in a recognize_faces call a face passes the liveness check exactly
\* when, at its check, the detector holds the required blinks or the required
\* head movements and the texture analysis passes: a face reported as failed
\* had a failing texture or a detector without evidence before the call, a face
\* not reported as failed had a passing texture and the detector holds evidence
\* after the call, and for the last face of the frame the two coincide. A face
\* that fails is reported once, as unrecognized with 'Liveness check failed',
\* and is not among the recognized.
C18_LivenessDecision ==
    [][ (last'.op = "update_frame" /\ last'.ret = "True"
         /\ known_face_ids # << >>) =>
            LET frame == FrameOf(last')
                res == recognition_results'
                n == Len(frame.faces)
            IN  \A i \in 1..n :
                    /\ ReportsFor(res, i) = 1
                    /\ LivenessFailed(res, i) =>
                          /\ RecognizedAs(res, i) = {}
                          /\ MessagesFor(res, i) = {"Liveness check failed"}
                          /\ ~frame.texture \/ ~Evidence(liveness_detector)
                    /\ ~LivenessFailed(res, i) =>
                          frame.texture /\ Evidence(liveness_detector')
                    /\ i = n =>
                          (LivenessFailed(res, i) <=>
                              ~(Evidence(liveness_detector') /\ frame.texture))
      ]_vars

\* in one frame the first face failed the liveness check and the second, whose
\* position completed a head movement, passed it and was recognized
C18_Witness ==
    /\ last.op = "update_frame" /\ last.ret = "True"
    /\ Len(FrameOf(last).faces) >= 2
    /\ LivenessFailed(recognition_results, 1)
    /\ RecognizedAs(recognition_results, 2) # {}
    /\ FrameOf(last).texture
    /\ liveness_detector.head_movement_count >= required_movements
    /\ liveness_detector.blink_count = 0
\* C19: whenever a capture session starts, the detector of the shared
\* recognition system holds no evidence of an earlier session: both counts are
\* 0 and both histories are empty.
C19_SessionStartsFresh ==
    [][ last'.op = "start_camera" =>
            /\ liveness_detector'.blink_count = 0
            /\ liveness_detector'.head_movement_count = 0
            /\ liveness_detector'.blink_history = << >>
            /\ liveness_detector'.movement_history = << >>
      ]_vars
\* C20: a check_liveness call never lowers blink_count or head_movement_count,
\* only reset() does, and reset() leaves both at 0; once the detector holds
\* the required blinks or head movements, check_liveness returns what the
\* texture analysis returns.
C20_CountsPersist ==
    [][ /\ last'.op = "check_liveness" =>
              /\ liveness_detector'.blink_count >= liveness_detector.blink_count
              /\ liveness_detector'.head_movement_count
                    >= liveness_detector.head_movement_count
              /\ Evidence(liveness_detector) =>
                    (last'.ret = "True" <=> last'.results[1])
        /\ ( \/ liveness_detector'.blink_count < liveness_detector.blink_count
             \/ liveness_detector'.head_movement_count
                    < liveness_detector.head_movement_count )
              => last'.op = "reset"
        /\ last'.op = "reset" =>
              /\ liveness_detector'.blink_count = 0
              /\ liveness_detector'.head_movement_count = 0
      ]_vars

\* a call that saw no blink (the eye stayed open over the last two calls) and
\* no head movement was accepted on the blink counted by an earlier call
C20_Witness ==
    /\ last.op = "check_liveness" /\ last.ret = "True" /\ last.results = <<TRUE>>
    /\ liveness_detector.blink_count >= required_blinks
    /\ liveness_detector.head_movement_count = 0
    /\ Len(liveness_detector.blink_history) = history_size
    /\ liveness_detector.blink_history[history_size] = 30
    /\ liveness_detector.blink_history[history_size - 1] = 30

\* ------------------------------------------------------------ gallery cache
\* the rows of the users table the gallery was not built from
StaleIds == {known_face_ids[i] : i \in DOMAIN known_face_ids} \ 
            {users[i].id : i \in {j \in DOMAIN users : users[j].face_encoding # NULL}}

\* C21: the cached gallery (known_face_ids, known_face_encodings) changes only
\* in a step that runs load_face_encodings (directly, or at the end of
\* save_face or of the add-user dialog); recognize_faces, encode_face,
\* mark_attendance_for_recognized_students, add_user, update_user and
\* delete_user leave it as it was, and recognize_faces reports the students of
\* the cached gallery whatever the users table holds.
C21_GalleryOnlyReloaded ==
    [][ /\ (known_face_ids' # known_face_ids
            \/ known_face_encodings' # known_face_encodings)
           => last'.op \in {"load_face_encodings", "save_face", "show_add_user_dialog"}
        /\ last'.op \in {"update_frame", "encode_face", "mark_recognized",
                         "add_user", "update_user", "delete_user"}
           => (known_face_ids' = known_face_ids
               /\ known_face_encodings' = known_face_encodings)
        /\ last'.op \in {"load_face_encodings", "save_face"}
           => (known_face_ids' = LoadedIds(users')
               /\ known_face_encodings' = LoadedEncodings(users'))
        /\ last'.op = "update_frame"
           => \A i \in DOMAIN recognition_results'.recognized :
                 \E k \in DOMAIN known_face_ids :
                    known_face_ids[k] = recognition_results'.recognized[i].student_id
      ]_vars

\* a frame was matched against a student whose row has been deleted from the
\* users table since the gallery was loaded
C21_Witness ==
    /\ last.op = "update_frame" /\ last.ret = "True"
    /\ \E i \in DOMAIN recognition_results.recognized :
          recognition_results.recognized[i].student_id \in StaleIds
    /\ \A i \in DOMAIN users : users[i].id \notin StaleIds

\* ------------------------------------------------------------- enrollment
\* C22: after every step no student is enrolled in two sections with the same
\* course code; an enroll_student call for a pair that is already enrolled is
\* refused; a refused call returns False and leaves the enrollments as they
\* were, an accepted one adds exactly the pair.
C22_OneSectionPerCourse ==
    [][ /\ \A s \in Students, c1 \in DOMAIN courses, c2 \in DOMAIN courses :
              ( /\ <<c1, s>> \in enrollments' /\ <<c2, s>> \in enrollments'
                /\ courses[c1].code = courses[c2].code ) => c1 = c2
        /\ last'.op = "enroll_student" =>
              LET pair == <<last'.course_id, last'.student_id>> IN
              /\ pair \in enrollments => last'.ret = "False"
              /\ last'.ret = "False" => enrollments' = enrollments
              /\ last'.ret = "True" =>
                    (pair \notin enrollments /\ enrollments' = enrollments \cup {pair})
      ]_vars

\* a student of section 101 and of the other course was refused in section
\* 102, which had a free seat
C22_Witness ==
    /\ last.op = "enroll_student" /\ last.ret = "False" /\ last.course_id = 102
    /\ <<101, last.student_id>> \in enrollments
    /\ <<103, last.student_id>> \in enrollments
    /\ \A s \in Students : <<102, s>> \notin enrollments

\* ------------------------------------------------- manual attendance widget
\* the mark_attendance calls a process_pending_saves step made
DrainCalls == IF last'.op = "process_pending_saves" THEN last'.results ELSE << >>

\* C23: process_pending_saves makes no mark_attendance call for a student
\* whose selected status equals the status last committed for that student
\* (last_saved_statuses).
C23_DrainSkipsNoOps ==
    [][ \A i \in DOMAIN DrainCalls :
            LET call == DrainCalls[i] IN
            ~ ( /\ call.student_id \in DOMAIN last_saved_statuses
                /\ last_saved_statuses[call.student_id] = call.status )
      ]_vars

\* C26: every mark_attendance call of process_pending_saves targets the date
\* that was selected when the student's status was last picked, with the
\* status picked then.
C26_DrainKeepsDate ==
    [][ \A i \in DOMAIN DrainCalls :
            LET call == DrainCalls[i] IN
            /\ call.student_id \in DOMAIN edit_log
            /\ call.date = edit_log[call.student_id].date
            /\ call.status = edit_log[call.student_id].status
      ]_vars

\* the status stored for the student on the selected date is the selected one
StoredAsSelected(st) ==
    /\ st \in DOMAIN status_combo
    /\ \E r \in RowsAt(attendance, st, widget_course_id, date_edit) :
          r.status = status_combo[st]

\* C27: while the drain tick keeps firing and the lecture is not cancelled,
\* every student put in pending_saves is later out of pending_saves with the
\* selected status stored for the selected date.
C27_EditsPersist ==
    \A st \in TimingStudents :
        (st \in pending_saves) ~> (st \notin pending_saves /\ StoredAsSelected(st))

\* C24: a record with second_time set never has status Unauthorized Departure,
\* whatever the order of the check-ins and of update_partial_attendance.
C24_CompletedPairKept ==
    \A r \in DOMAIN attendance :
        r.second_time # NULL => r.status # STATUS_UNAUTHORIZED_DEPARTURE

\* C25: whenever auto_mark_attendance runs for an enrolled student, the loop
\* body of mark_attendance_for_recognized_students run from the same table,
\* schedule and clock takes the same accept/reject decision and leaves the
\* same table.
C25_PathsAgree ==
    [][ \A s \in TimingStudents, c \in DOMAIN courses :
            ( /\ last'.op = "auto_mark_attendance"
              /\ last'.student_id = s
              /\ last'.course_id = c
              /\ IsEnrolled(s, c) )
            => LET step == RecognizedStudentStep(attendance, s, c) IN
               /\ step.att = attendance'
               /\ step.res.success = (last'.ret = "True")
      ]_vars

\* C28: auto_mark_attendance accepts a first check-in made at exactly the
\* start time, with status Present, and a second check-in made at exactly the
\* end time, also for lectures that start right after 00:00 or end right
\* before 24:00.
C28_BoundaryCheckInsAccepted ==
    [][ \A s \in TimingStudents, c \in DOMAIN courses :
            ( /\ last'.op = "auto_mark_attendance"
              /\ last'.student_id = s
              /\ last'.course_id = c )
            => /\ ( /\ ~HasRow(attendance, s, c, today)
                    /\ now = courses[c].start_time )
                  => /\ last'.ret = "True"
                     /\ \E r \in RowsAt(attendance', s, c, today) :
                           r.time = now /\ r.status = STATUS_PRESENT
               /\ ( /\ \E r \in RowsAt(attendance, s, c, today) :
                          r.is_cancelled = 0 /\ r.second_time = NULL
                    /\ now = EffectiveEnd(c, today) )
                  => /\ last'.ret = "True"
                     /\ \E r \in RowsAt(attendance', s, c, today) :
                           r.second_time = now
      ]_vars

\* C29: a record with second_time set has its first time set; the records
\* without a first time are the ones cancel_lecture inserted, and they keep
\* both times null.
C29_SecondTimeHasFirst ==
    \A r \in DOMAIN attendance :
        /\ r.second_time # NULL => r.time # NULL
        /\ r.time = NULL => (r.is_cancelled = 1 /\ r.second_time = NULL)

\* a completed pair on one date next to a record cancel_lecture inserted on
\* another, on which a check-in was tried afterwards
C29_Witness ==
    /\ \E r \in DOMAIN attendance : r.second_time # NULL /\ r.time # NULL
    /\ \E r \in DOMAIN attendance :
          /\ r.is_cancelled = 1 /\ r.time = NULL /\ r.second_time = NULL
          /\ last.op \in {"mark_attendance", "auto_mark_attendance"}
          /\ last.student_id = r.student_id
          /\ last.course_id = r.course_id
          /\ last.date = r.date

\* C30: every attendance record with is_cancelled = 1 has status N/A.
C30_CancelledIsNA ==
    \A r \in DOMAIN attendance : r.is_cancelled = 1 => r.status = STATUS_NA

\* a record that had a check-in before its lecture was cancelled, and a manual
\* override refused on it afterwards
C30_Witness ==
    \E r \in DOMAIN attendance :
        /\ r.is_cancelled = 1 /\ r.time # NULL /\ r.status = STATUS_NA
        /\ last.op = "mark_attendance"
        /\ last.student_id = r.student_id
        /\ last.course_id = r.course_id
        /\ last.date = r.date
        /\ last.ret = "False"
====
